---- MODULE Spec2Model ----
(***************************************************************************)
(* Model of pdf_converter.py: the PDFConverter class (merge_pdfs,           *)
(* image_to_pdf, optimize_pdf) and the click commands merge, convert,      *)
(* optimize and batch that drive it.                                       *)
(*                                                                         *)
(* The third-party libraries (click, PyPDF2, Pillow, img2pdf, pikepdf) are *)
(* the environment: where a library call can fail, the model takes both    *)
(* outcomes.                                                               *)
(***************************************************************************)
EXTENDS Integers, Sequences, FiniteSets, TLC

\* ------------------------------------------------------------------ bounds
\* Longest list of image files, and of PDF files, given to one invocation.
MaxFiles == 2
\* Largest number of pages of the PDF that optimize_pdf opens.
MaxPages == 2
\* Largest number of pixels of an image given to the RGB conversion.
MaxPixels == 2

\* ------------------------------------------------------------- the inputs
ImagePaths == {"i1.png", "i2.png"}
PdfPaths == {"p1.pdf", "p2.pdf"}
OutputPath == "out.pdf"

BSeq(S, n) == UNION {[1..k -> S] : k \in 0..n}

RECURSIVE SeqToSet(_)
SeqToSet(s) == IF s = <<>> THEN {} ELSE {Head(s)} \cup SeqToSet(Tail(s))

VARIABLES
  entry,            \* "cli": a console command; "api": a direct method call (tests)
  cmd,              \* "merge", "convert", "optimize", "batch"
  image_files,      \* the image_files argument
  pdf_files,        \* the input_files / input_file / --pdf argument
  quality,          \* the -q / quality argument
  fs,               \* the paths that exist
  fs0,              \* the paths that existed when the invocation began
  pc,               \* position in the command function
  exit_code,        \* <<>> while running, <<n>> once the process exited with n
  converter,        \* <<>> or <<the PDFConverter>>
  temp_dir,         \* batch: <<>> or <<the directory of mkdtemp>>
  temp_files,       \* batch: temp_files
  ci,               \* batch: index of the cleanup loop over temp_files
  del_failed,       \* batch: os.remove / os.rmdir was refused by the system
  op,               \* the converter method being run, "none" when none
  mpc,              \* position in that method
  m_in,             \* its input list
  m_out,            \* its output path
  i,                \* its loop index
  ret,              \* "None", "True", "False": what the last call returned
  processed_images, \* image_to_pdf: processed_images
  handles,          \* open file and document handles
  log,              \* method calls begun and returned, in order
  visited,          \* optimize_pdf: the XObject entries gone through, in order
  writes,           \* [path, by]: paths created or written, and by which method
  input_doc,        \* the object graph of the PDF optimize_pdf opens
  doc,              \* optimize_pdf: <<>> or <<pdf>>, the opened document
  saved_doc,        \* optimize_pdf: <<>> or <<what pdf.save wrote>>
  img,              \* RGB conversion: the image handed to it
  flat              \* RGB conversion: <<>> or <<the image handed to the JPEG encoder>>

argvars == <<entry, cmd, image_files, pdf_files, quality, fs0, input_doc>>
clivars == <<pc, exit_code, converter, temp_dir, temp_files, ci, del_failed>>
callvars == <<op, mpc, m_in, m_out, i, ret, processed_images, log>>
docvars == <<doc, saved_doc, visited>>
flatvars == <<img, flat>>
vars == <<argvars, clivars, callvars, docvars, flatvars, fs, handles, writes>>

\* ------------------------------------------------ PDFConverter.__init__
QualityLabels == {"high", "medium", "low"}

\* self.quality_settings
QualitySettings ==
  [q \in QualityLabels |->
     CASE q = "high"   -> [dpi |-> 300, quality |-> 95, optimize |-> TRUE]
       [] q = "medium" -> [dpi |-> 200, quality |-> 85, optimize |-> TRUE]
       [] q = "low"    -> [dpi |-> 150, quality |-> 75, optimize |-> TRUE]]

\* PDFConverter(quality): no check of the label is made here.
NewConverter(q) == [quality |-> q, quality_settings |-> QualitySettings]

\* settings = self.quality_settings[self.quality]; a KeyError when absent
HasSettings(c) == c.quality \in DOMAIN c.quality_settings
SettingsOf(c) == c.quality_settings[c.quality]

\* ------------------------------------- the conversion to RGB (both places)
\* An image is [mode, px]; a pixel is [c, a]: its colour (one number stands for
\* the colour, 255 is white) and its alpha (0 transparent, 255 opaque).  For
\* mode P the pixel holds the palette entry's colour and transparency.
White == 255
AlphaModes == {"RGBA", "LA", "P"}
OtherModes == {"RGB", "L", "CMYK", "F"}
Modes == AlphaModes \cup OtherModes
Levels == {0, 128, 255}

\* len(img.split()): the number of bands of a mode
Bands(mode) ==
  CASE mode = "RGBA" -> 4
    [] mode = "CMYK" -> 4
    [] mode = "RGB"  -> 3
    [] mode = "LA"   -> 2
    [] OTHER         -> 1

\* Pillow's blend of two 8-bit values under an 8-bit mask
MulDiv255(a, b) == LET t == a * b + 128 IN ((t \div 256) + t) \div 256
Blend(mask, under, over) == MulDiv255(under, 255 - mask) + MulDiv255(over, mask)

\* rgb_img.paste(img, mask=...): with a mask the pixel is blended onto the
\* background; with mask=None the colour is copied and the alpha dropped.
Paste(background, p, useMask) ==
  IF useMask THEN Blend(p.a, background, p.c) ELSE p.c

\* mask=img.split()[-1] if len(img.split()) > 3 else None
MaskGiven(mode) == Bands(mode) > 3

\* if img.mode in ('RGBA', 'LA', 'P'): ... img = rgb_img
Flatten(im) ==
  IF im.mode \in AlphaModes
  THEN LET m1 == IF im.mode = "P" THEN "RGBA" ELSE im.mode
       IN  [mode |-> "RGB",
            px |-> [k \in DOMAIN im.px |->
                      [c |-> IF m1 \in {"RGBA", "LA"}
                             THEN Paste(White, im.px[k], MaskGiven(m1))
                             ELSE White,
                       a |-> 255]]]
  ELSE im

\* img.save(..., format='JPEG'): the modes the JPEG encoder writes
JpegWritable(mode) == mode \in {"RGB", "L", "CMYK"}

Pixels(mode) ==
  IF mode \in AlphaModes
  THEN [c : Levels, a : Levels]
  ELSE [c : Levels, a : {255}]

Images ==
  UNION {[mode : {m}, px : UNION {[1..k -> Pixels(m)] : k \in 1..MaxPixels}]
           : m \in Modes}

NoImage == [mode |-> "RGB", px |-> <<[c |-> White, a |-> 255]>>]

\* ------------------------------------------------ the PDF object graph
\* A document is [pages, objs]: pages is the sequence of the pages' XObject
\* tables (name -> object id; the empty table stands for a page without
\* /Resources or /XObject), objs the objects.  An object is
\* [subtype, len, body, filter, enc, jq]: len is the length of read_bytes(),
\* body is "unreadable" (read_bytes raises), "garbage" (Image.open raises) or
\* the mode of the image the bytes decode to, enc counts the times the stream
\* was replaced and jq is the JPEG quality of the last replacement.
MinImageSize == 1024

Names == {"Im0", "Im1"}
NameOrder == <<"Im0", "Im1">>
ObjIds == {1, 2}

FormObject ==
  [subtype |-> "Form", len |-> 2 * MinImageSize, body |-> "garbage",
   filter |-> "FlateDecode", enc |-> 0, jq |-> 0]
ImageObject(n, b) ==
  [subtype |-> "Image", len |-> n, body |-> b,
   filter |-> "FlateDecode", enc |-> 0, jq |-> 0]

ObjKinds ==
  {FormObject,
   ImageObject(MinImageSize - 1, "RGB"),
   ImageObject(MinImageSize, "RGB")}
  \cup {ImageObject(2 * MinImageSize, b) :
          b \in {"unreadable", "garbage", "RGB", "LA", "F"}}

Tables == UNION {[S -> ObjIds] : S \in SUBSET Names}

Docs ==
  [pages : UNION {[1..k -> Tables] : k \in 1..MaxPages},
   objs : [ObjIds -> ObjKinds]]

SampleDoc ==
  [pages |-> <<("Im0" :> 1 @@ "Im1" :> 2)>>,
   objs |-> (1 :> ImageObject(2 * MinImageSize, "RGBA")
             @@ 2 :> ImageObject(2 * MinImageSize, "garbage"))]

\* for name in xobjects, for one page
PageRefs(d, p) ==
  LET ns == SelectSeq(NameOrder, LAMBDA n : n \in DOMAIN d.pages[p])
  IN  [k \in 1..Len(ns) |-> <<p, ns[k]>>]

\* for page in pdf.pages: for name in xobjects
RECURSIVE RefsFrom(_, _)
RefsFrom(d, p) ==
  IF p > Len(d.pages) THEN <<>> ELSE PageRefs(d, p) \o RefsFrom(d, p + 1)
Refs(d) == RefsFrom(d, 1)

RefObj(d, r) == d.pages[r[1]][r[2]]

\* if len(raw_image) > 1024
AboveThreshold_Inclusive(n) == n >= MinImageSize
AboveThreshold(n) == n > MinImageSize

FlatMode(m) == Flatten([mode |-> m, px |-> <<>>]).mode

\* raw_image = obj.read_bytes(): the call decodes the stream at pikepdf's
\* default level, which does not undo DCTDecode, so it raises on a stream
\* that obj.write(..., filter=DCTDecode) has replaced.  (read_raw_bytes()
\* would hand out the JPEG bytes as they are.)
DctReadable_Raw == {TRUE}
DctReadable == {FALSE}

\* What the body of "for name in xobjects" does with one object; rd says
\* whether read_bytes() hands out the bytes of a DCTDecode stream.
ImageOutcome(o, rd) ==
  IF o.subtype # "Image" THEN "not_image"
  ELSE IF o.body = "unreadable" \/ (o.filter = "DCTDecode" /\ ~rd) THEN "warned"
  ELSE IF ~AboveThreshold(o.len) THEN "small"
  ELSE IF o.body = "garbage" THEN "warned"
  ELSE IF ~JpegWritable(FlatMode(o.body)) THEN "warned"
  ELSE "reencoded"

\* obj.write(img_bytes.read(), filter=pikepdf.Name.DCTDecode)
Reencoded(o, st, n) ==
  [o EXCEPT !.len = n, !.body = FlatMode(o.body), !.filter = "DCTDecode",
            !.enc = o.enc + 1, !.jq = st.quality]

\* except Exception as img_error: ... continue
OnImageError_Break(k, n) == n + 1
OnImageError(k, n) == k + 1

\* ------------------------------------------------------- calls and returns
PdfHandle == <<"pdf", 0>>
MergerHandle == <<"merger", 0>>
InputHandle(k) == <<"input", k>>
ImageHandle(k) == <<"image", k>>

\* A method is entered.
Start(o, ins, out) ==
  /\ op' = o
  /\ mpc' = "start"
  /\ m_in' = ins
  /\ m_out' = out
  /\ i' = 1
  /\ ret' = "None"
  /\ processed_images' = <<>>
  /\ log' = Append(log, [step |-> o, ev |-> "start"])

\* A method returns r with the handles hs never closed by it: the runtime
\* may finalise the objects that held them at once, or later.
Return(r, hs) ==
  /\ mpc' = "returned"
  /\ ret' = r
  /\ log' = Append(log, [step |-> op, ev |-> r])
  /\ handles' \in {hs, {}}
  /\ UNCHANGED <<op, m_in, m_out, i, processed_images>>

\* ----------------------------------------------- PDFConverter.optimize_pdf
\* if not os.path.exists(input_file): return False
OptCheck ==
  /\ op = "optimize_pdf" /\ mpc = "start"
  /\ IF m_in[1] \notin fs
     THEN Return("False", handles)
     ELSE /\ mpc' = "open"
          /\ UNCHANGED <<op, m_in, m_out, i, ret, processed_images, log, handles>>
  /\ UNCHANGED <<argvars, clivars, docvars, flatvars, fs, writes>>

\* settings = ...; with pikepdf.open(input_file) as pdf
OptOpen ==
  /\ op = "optimize_pdf" /\ mpc = "open"
  /\ \E ok \in BOOLEAN :
       IF HasSettings(converter[1]) /\ ok
       THEN /\ doc' = <<input_doc>>
            /\ visited' = <<>>
            /\ handles' = handles \cup {PdfHandle}
            /\ mpc' = "images"
            /\ i' = 1
            /\ UNCHANGED <<op, m_in, m_out, ret, processed_images, log>>
       ELSE /\ Return("False", handles)
            /\ UNCHANGED <<doc, visited>>
  /\ UNCHANGED <<argvars, clivars, saved_doc, flatvars, fs, writes>>

\* one pass of the body of: for page in pdf.pages: for name in xobjects
OptXObject ==
  /\ op = "optimize_pdf" /\ mpc = "images"
  /\ i <= Len(Refs(doc[1]))
  /\ LET d == doc[1]
         r == Refs(d)[i]
         id == RefObj(d, r)
         o == d.objs[id]
     IN  \E rd \in DctReadable, n \in {MinImageSize, 2 * MinImageSize} :
           LET what == ImageOutcome(o, rd)
           IN  /\ visited' = Append(visited, [ref |-> r, obj |-> id, outcome |-> what])
               /\ doc' = IF what = "reencoded"
                         THEN <<[d EXCEPT !.objs[id] =
                                   Reencoded(o, SettingsOf(converter[1]), n)]>>
                         ELSE doc
               /\ i' = IF what = "warned"
                       THEN OnImageError(i, Len(Refs(d)))
                       ELSE i + 1
  /\ UNCHANGED <<op, mpc, m_in, m_out, ret, processed_images, log>>
  /\ UNCHANGED <<argvars, clivars, saved_doc, flatvars, fs, handles, writes>>

\* pdf.save(output_file, ...), the end of the with block, the size report
OptSave ==
  /\ op = "optimize_pdf" /\ mpc = "images"
  /\ i > Len(Refs(doc[1]))
  /\ \E how \in {"saved", "failed", "failed_partial"} :
       /\ saved_doc' = IF how = "saved" THEN doc ELSE saved_doc
       /\ fs' = IF how = "failed" THEN fs ELSE fs \cup {m_out}
       /\ writes' = IF how = "failed" THEN writes
                    ELSE writes \cup {[path |-> m_out, by |-> op]}
       /\ Return(IF how = "saved" THEN "True" ELSE "False", handles \ {PdfHandle})
  /\ UNCHANGED <<argvars, clivars, doc, visited, flatvars>>

\* ------------------------------------------------- PDFConverter.merge_pdfs
\* if not os.path.exists(pdf_file): ... return False
AfterNotFound_Skip == "skip"
AfterNotFound == "return"

MergeHandles(n) == {MergerHandle} \cup {InputHandle(k) : k \in 1..n}

\* merger = PdfMerger()
MergeNew ==
  /\ op = "merge_pdfs" /\ mpc = "start"
  /\ mpc' = "loop"
  /\ handles' = handles \cup {MergerHandle}
  /\ UNCHANGED <<op, m_in, m_out, i, ret, processed_images, log>>
  /\ UNCHANGED <<argvars, clivars, docvars, flatvars, fs, writes>>

\* one pass of: for pdf_file in input_files.  merger.append opens the file
\* and keeps it open until merger.close(); it raises on a file it cannot read.
MergeFile ==
  /\ op = "merge_pdfs" /\ mpc = "loop"
  /\ i <= Len(m_in)
  /\ IF m_in[i] \notin fs /\ AfterNotFound = "return"
     THEN Return("False", handles)
     ELSE IF m_in[i] \notin fs
     THEN /\ i' = i + 1
          /\ UNCHANGED <<op, mpc, m_in, m_out, ret, processed_images, log, handles>>
     ELSE \E ok \in BOOLEAN :
            IF ok
            THEN /\ i' = i + 1
                 /\ handles' = handles \cup {InputHandle(i)}
                 /\ UNCHANGED <<op, mpc, m_in, m_out, ret, processed_images, log>>
            ELSE Return("False", handles)
  /\ UNCHANGED <<argvars, clivars, docvars, flatvars, fs, writes>>

\* merger.write(output_file); merger.close(); return True
MergeWrite ==
  /\ op = "merge_pdfs" /\ mpc = "loop"
  /\ i > Len(m_in)
  /\ \E how \in {"saved", "failed", "failed_partial"} :
       /\ fs' = IF how = "failed" THEN fs ELSE fs \cup {m_out}
       /\ writes' = IF how = "failed" THEN writes
                    ELSE writes \cup {[path |-> m_out, by |-> op]}
       /\ IF how = "saved"
          THEN Return("True", handles \ MergeHandles(Len(m_in)))
          ELSE Return("False", handles)
  /\ UNCHANGED <<argvars, clivars, docvars, flatvars>>

\* ----------------------------------------------- PDFConverter.image_to_pdf
\* What an image file may hold: bytes Image.open refuses, or an image of
\* some mode.
ImgKinds == {"garbage", "RGB", "LA", "F"}
SampleImage(m) ==
  [mode |-> m, px |-> <<[c |-> 0, a |-> IF m \in AlphaModes THEN 0 ELSE 255]>>]

\* the loop "Verify all files exist", then settings = ...
ConvVerify ==
  /\ op = "image_to_pdf" /\ mpc = "start"
  /\ IF (\E k \in 1..Len(m_in) : m_in[k] \notin fs) \/ ~HasSettings(converter[1])
     THEN Return("False", handles)
     ELSE /\ mpc' = "process"
          /\ UNCHANGED <<op, m_in, m_out, i, ret, processed_images, log, handles>>
  /\ UNCHANGED <<argvars, clivars, docvars, flatvars, fs, writes>>

\* one pass of: for img_file in image_files (the second loop).  The file of
\* Image.open is closed by Pillow once a single-frame image is loaded and
\* stays open otherwise; the code closes nothing.
ConvImage ==
  /\ op = "image_to_pdf" /\ mpc = "process"
  /\ i <= Len(m_in)
  /\ \E kind \in ImgKinds, closed \in BOOLEAN :
       LET st == SettingsOf(converter[1])
           f == Flatten(SampleImage(kind))
           hs == IF closed THEN handles ELSE handles \cup {ImageHandle(i)}
       IN  IF kind = "garbage"
           THEN Return("False", handles)
           ELSE IF JpegWritable(f.mode)
           THEN /\ processed_images' =
                     Append(processed_images,
                            [px |-> f.px, quality |-> st.quality, dpi |-> st.dpi])
                /\ i' = i + 1
                /\ handles' = hs
                /\ UNCHANGED <<op, mpc, m_in, m_out, ret, log>>
           ELSE Return("False", hs)
  /\ UNCHANGED <<argvars, clivars, docvars, flatvars, fs, writes>>

\* with open(output_file, "wb") as f: f.write(img2pdf.convert(...))
ConvWrite ==
  /\ op = "image_to_pdf" /\ mpc = "process"
  /\ i > Len(m_in)
  /\ \E how \in {"saved", "failed", "failed_partial"} :
       /\ fs' = IF how = "failed" THEN fs ELSE fs \cup {m_out}
       /\ writes' = IF how = "failed" THEN writes
                    ELSE writes \cup {[path |-> m_out, by |-> op]}
       /\ Return(IF how = "saved" THEN "True" ELSE "False", handles)
  /\ UNCHANGED <<argvars, clivars, docvars, flatvars>>

\* ------------------------------------------------------ the click commands
\* type=click.Path(exists=True)
PathExists(p, files) == p \in files

\* type=click.Choice(['high', 'medium', 'low'])
ChoiceOK_Any(q) == TRUE
ChoiceOK(q) == q \in QualityLabels

AllExist(s, files) == \A k \in 1..Len(s) : PathExists(s[k], files)

\* What click refuses before the command function runs (it exits with 2).
UsageError ==
  \/ cmd = "merge" /\ (pdf_files = <<>> \/ ~AllExist(pdf_files, fs))
  \/ cmd = "convert" /\ (image_files = <<>> \/ ~AllExist(image_files, fs))
  \/ cmd = "optimize" /\ (Len(pdf_files) # 1 \/ ~AllExist(pdf_files, fs))
  \/ cmd = "batch" /\ ~(AllExist(image_files, fs) /\ AllExist(pdf_files, fs))
  \/ cmd # "merge" /\ ~ChoiceOK(quality)

\* the method a command calls, and its arguments
MethodOf(c) ==
  CASE c = "merge" -> "merge_pdfs"
    [] c = "convert" -> "image_to_pdf"
    [] c = "optimize" -> "optimize_pdf"
InputsOf(c) == IF c = "convert" THEN image_files ELSE pdf_files

\* click's parsing of the command line
CliParse ==
  /\ entry = "cli" /\ pc = "parse"
  /\ IF UsageError
     THEN pc' = "done" /\ exit_code' = <<2>>
     ELSE pc' = "run" /\ UNCHANGED exit_code
  /\ UNCHANGED <<converter, temp_dir, temp_files, ci, del_failed>>
  /\ UNCHANGED <<argvars, callvars, docvars, flatvars, fs, handles, writes>>

\* merge, convert, optimize: converter = PDFConverter(...); success = ...
CmdRun ==
  /\ entry = "cli" /\ pc = "run" /\ cmd # "batch"
  /\ converter' = <<NewConverter(IF cmd = "merge" THEN "high" ELSE quality)>>
  /\ Start(MethodOf(cmd), InputsOf(cmd), OutputPath)
  /\ pc' = "wait"
  /\ UNCHANGED <<exit_code, temp_dir, temp_files, ci, del_failed>>
  /\ UNCHANGED <<argvars, docvars, flatvars, fs, handles, writes>>

\* sys.exit(0 if success else 1)
ExitOf(r) == IF r = "True" THEN 0 ELSE 1

CmdExit ==
  /\ entry = "cli" /\ pc = "wait" /\ mpc = "returned"
  /\ exit_code' = <<ExitOf(ret)>>
  /\ pc' = "done"
  /\ UNCHANGED <<converter, temp_dir, temp_files, ci, del_failed>>
  /\ UNCHANGED <<argvars, callvars, docvars, flatvars, fs, handles, writes>>

\* a direct call of a method on a converter, as the unit tests make it
ApiCall ==
  /\ entry = "api" /\ pc = "call"
  /\ converter' = <<NewConverter(quality)>>
  /\ Start(MethodOf(cmd), InputsOf(cmd), OutputPath)
  /\ pc' = "wait"
  /\ UNCHANGED <<exit_code, temp_dir, temp_files, ci, del_failed>>
  /\ UNCHANGED <<argvars, docvars, flatvars, fs, handles, writes>>

ApiReturn ==
  /\ entry = "api" /\ pc = "wait" /\ mpc = "returned"
  /\ pc' = "done"
  /\ UNCHANGED <<exit_code, converter, temp_dir, temp_files, ci, del_failed>>
  /\ UNCHANGED <<argvars, callvars, docvars, flatvars, fs, handles, writes>>

\* ------------------------------------------------------------------ batch
TempDir == "tmp"
TempImagesPdf == "tmp/temp_images.pdf"
TempMergedPdf == "tmp/temp_merged.pdf"
\* the entries of the temporary directory
DirEntries(files) == files \cap {TempImagesPdf, TempMergedPdf}

\* all_pdfs = temp_files + list(pdf_files)
AllPdfs(tf, pf) == tf \o pf

\* converter = ...; temp_files = []; temp_dir = tempfile.mkdtemp()
BatchStart ==
  /\ entry = "cli" /\ pc = "run" /\ cmd = "batch"
  /\ converter' = <<NewConverter(quality)>>
  /\ temp_files' = <<>>
  /\ temp_dir' = <<TempDir>>
  /\ fs' = fs \cup {TempDir}
  /\ pc' = "validate"
  /\ UNCHANGED <<exit_code, ci, del_failed>>
  /\ UNCHANGED <<argvars, callvars, docvars, flatvars, handles, writes>>

\* if not image_files and not pdf_files: ... sys.exit(1), outside the try
BatchValidate ==
  /\ pc = "validate"
  /\ IF image_files = <<>> /\ pdf_files = <<>>
     THEN pc' = "done" /\ exit_code' = <<1>>
     ELSE pc' = "convert" /\ UNCHANGED exit_code
  /\ UNCHANGED <<converter, temp_dir, temp_files, ci, del_failed>>
  /\ UNCHANGED <<argvars, callvars, docvars, flatvars, fs, handles, writes>>

\* if image_files: ... converter.image_to_pdf(list(image_files), temp_img_pdf)
BatchConvert ==
  /\ pc = "convert"
  /\ IF image_files # <<>>
     THEN /\ Start("image_to_pdf", image_files, TempImagesPdf)
          /\ pc' = "convert_wait"
     ELSE /\ pc' = "merge"
          /\ UNCHANGED callvars
  /\ UNCHANGED <<exit_code, converter, temp_dir, temp_files, ci, del_failed>>
  /\ UNCHANGED <<argvars, docvars, flatvars, fs, handles, writes>>

\* What follows a step's result: sys.exit(1) (SystemExit runs the finally
\* block), or the next step.
StepFailed_Never(r) == FALSE
StepFailed(r) == r # "True"

\* if not ...image_to_pdf(...): sys.exit(1); temp_files.append(temp_img_pdf)
BatchConvertDone ==
  /\ pc = "convert_wait" /\ mpc = "returned"
  /\ IF StepFailed(ret)
     THEN pc' = "cleanup" /\ exit_code' = <<1>> /\ UNCHANGED temp_files
     ELSE /\ pc' = "merge"
          /\ temp_files' = Append(temp_files, TempImagesPdf)
          /\ UNCHANGED exit_code
  /\ UNCHANGED <<converter, temp_dir, ci, del_failed>>
  /\ UNCHANGED <<argvars, callvars, docvars, flatvars, fs, handles, writes>>

\* all_pdfs = ...; converter.merge_pdfs(all_pdfs, temp_merged)
BatchMerge ==
  /\ pc = "merge"
  /\ Start("merge_pdfs", AllPdfs(temp_files, pdf_files), TempMergedPdf)
  /\ pc' = "merge_wait"
  /\ UNCHANGED <<exit_code, converter, temp_dir, temp_files, ci, del_failed>>
  /\ UNCHANGED <<argvars, docvars, flatvars, fs, handles, writes>>

\* if not ...merge_pdfs(...): sys.exit(1); temp_files.append(temp_merged)
BatchMergeDone ==
  /\ pc = "merge_wait" /\ mpc = "returned"
  /\ IF StepFailed(ret)
     THEN pc' = "cleanup" /\ exit_code' = <<1>> /\ UNCHANGED temp_files
     ELSE /\ pc' = "optimize"
          /\ temp_files' = Append(temp_files, TempMergedPdf)
          /\ UNCHANGED exit_code
  /\ UNCHANGED <<converter, temp_dir, ci, del_failed>>
  /\ UNCHANGED <<argvars, callvars, docvars, flatvars, fs, handles, writes>>

\* converter.optimize_pdf(temp_merged, output)
BatchOptimize ==
  /\ pc = "optimize"
  /\ Start("optimize_pdf", <<TempMergedPdf>>, OutputPath)
  /\ pc' = "optimize_wait"
  /\ UNCHANGED <<exit_code, converter, temp_dir, temp_files, ci, del_failed>>
  /\ UNCHANGED <<argvars, docvars, flatvars, fs, handles, writes>>

\* if not ...optimize_pdf(...): sys.exit(1); ...; sys.exit(0)
BatchOptimizeDone ==
  /\ pc = "optimize_wait" /\ mpc = "returned"
  /\ exit_code' = <<ExitOf(ret)>>
  /\ pc' = "cleanup"
  /\ UNCHANGED <<converter, temp_dir, temp_files, ci, del_failed>>
  /\ UNCHANGED <<argvars, callvars, docvars, flatvars, fs, handles, writes>>

\* finally: one pass of: for temp_file in temp_files
BatchCleanupFile ==
  /\ pc = "cleanup"
  /\ ci <= Len(temp_files)
  /\ ci' = ci + 1
  /\ IF temp_files[ci] \in fs
     THEN \E ok \in BOOLEAN :
            /\ fs' = IF ok THEN fs \ {temp_files[ci]} ELSE fs
            /\ del_failed' = (del_failed \/ ~ok)
     ELSE UNCHANGED <<fs, del_failed>>
  /\ UNCHANGED <<pc, exit_code, converter, temp_dir, temp_files>>
  /\ UNCHANGED <<argvars, callvars, docvars, flatvars, handles, writes>>

\* finally: os.rmdir(temp_dir), which the system refuses for a directory
\* that is not empty; then the pending SystemExit ends the process
BatchCleanupDir ==
  /\ pc = "cleanup"
  /\ ci > Len(temp_files)
  /\ pc' = "done"
  /\ IF DirEntries(fs) # {}
     THEN UNCHANGED <<fs, del_failed>>
     ELSE \E ok \in BOOLEAN :
            /\ fs' = IF ok THEN fs \ {temp_dir[1]} ELSE fs
            /\ del_failed' = (del_failed \/ ~ok)
  /\ UNCHANGED <<exit_code, converter, temp_dir, temp_files, ci>>
  /\ UNCHANGED <<argvars, callvars, docvars, flatvars, handles, writes>>

\* ----------------------------------------------------- the specifications
Commands == {"merge", "convert", "optimize", "batch"}

\* What no invocation has touched yet.
Idle ==
  /\ exit_code = <<>>
  /\ converter = <<>>
  /\ temp_dir = <<>>
  /\ temp_files = <<>>
  /\ ci = 1
  /\ del_failed = FALSE
  /\ op = "none" /\ mpc = "idle" /\ m_in = <<>> /\ m_out = "" /\ i = 1
  /\ ret = "None"
  /\ processed_images = <<>>
  /\ handles = {}
  /\ log = <<>>
  /\ visited = <<>>
  /\ writes = {}
  /\ doc = <<>>
  /\ saved_doc = <<>>

\* One invocation: a console command, or a direct call of a method, on any
\* arguments and with any of the named files present.
Init ==
  /\ entry \in {"cli", "api"}
  /\ cmd \in IF entry = "cli" THEN Commands ELSE Commands \ {"batch"}
  /\ image_files \in IF cmd \in {"convert", "batch"}
                     THEN BSeq(ImagePaths, MaxFiles) ELSE {<<>>}
  /\ pdf_files \in IF cmd = "optimize" /\ entry = "api"
                   THEN [1..1 -> PdfPaths]
                   ELSE IF cmd = "convert" THEN {<<>>}
                   ELSE BSeq(PdfPaths, MaxFiles)
  /\ quality \in IF cmd = "merge" THEN {"high"}
                 ELSE IF entry = "cli" THEN QualityLabels \cup {"draft"}
                 ELSE QualityLabels
  /\ fs0 \in SUBSET (SeqToSet(image_files) \cup SeqToSet(pdf_files))
  /\ fs = fs0
  /\ pc = IF entry = "cli" THEN "parse" ELSE "call"
  /\ input_doc = SampleDoc
  /\ img = NoImage /\ flat = <<>>
  /\ Idle

Next ==
  \/ CliParse \/ CmdRun \/ CmdExit \/ ApiCall \/ ApiReturn
  \/ BatchStart \/ BatchValidate \/ BatchConvert \/ BatchConvertDone
  \/ BatchMerge \/ BatchMergeDone \/ BatchOptimize \/ BatchOptimizeDone
  \/ BatchCleanupFile \/ BatchCleanupDir
  \/ MergeNew \/ MergeFile \/ MergeWrite
  \/ ConvVerify \/ ConvImage \/ ConvWrite
  \/ OptCheck \/ OptOpen \/ OptXObject \/ OptSave

Spec == Init /\ [][Next]_vars

\* optimize_pdf alone, called on an existing file holding any document.
InitOpt ==
  /\ entry = "api" /\ cmd = "optimize"
  /\ image_files = <<>> /\ pdf_files = <<"p1.pdf">>
  /\ quality = "high"
  /\ fs0 = {"p1.pdf"} /\ fs = fs0
  /\ pc = "call"
  /\ input_doc \in Docs
  /\ img = NoImage /\ flat = <<>>
  /\ Idle

NextOpt == ApiCall \/ OptCheck \/ OptOpen \/ OptXObject \/ OptSave \/ ApiReturn

SpecOpt == InitOpt /\ [][NextOpt]_vars

\* the conversion to RGB alone, on any image
ApplyFlatten ==
  /\ flat = <<>>
  /\ flat' = <<Flatten(img)>>
  /\ UNCHANGED <<argvars, clivars, callvars, docvars, img, fs, handles, writes>>

InitFlat ==
  /\ entry = "api" /\ cmd = "convert"
  /\ image_files = <<>> /\ pdf_files = <<>>
  /\ quality = "high"
  /\ fs0 = {} /\ fs = fs0
  /\ pc = "done"
  /\ input_doc = SampleDoc
  /\ img \in Images /\ flat = <<>>
  /\ Idle

SpecFlat == InitFlat /\ [][ApplyFlatten]_vars

\* ------------------------------------------------------------- properties
BatchCommand == entry = "cli" /\ cmd = "batch"
NoInputs == image_files = <<>> /\ pdf_files = <<>>

\* C1: when a batch run has ended, at whatever point it stopped, and the
\* system refused no deletion, the temporary directory of the run and every
\* file the run created in it no longer exist.
C1_BatchRemovesTemp ==
  (BatchCommand /\ pc = "done" /\ temp_dir # <<>> /\ ~del_failed)
    => (TempDir \notin fs /\ DirEntries(fs) = {})

\* C2: batch without image files and without --pdf files exits with code 1
\* and leaves the file system as it found it.
C2_ZeroInputTouchesNothing ==
  (BatchCommand /\ NoInputs /\ ChoiceOK(quality) /\ pc = "done")
    => (exit_code = <<1>> /\ fs = fs0 /\ writes = {})

\* C3: a call of merge_pdfs, image_to_pdf or optimize_pdf whose input list
\* holds a path that does not exist, at any position, returns False, and at
\* no moment of the call does the output path exist or get written.
C3_MissingInputFails ==
  (entry = "api" /\ op # "none" /\ \E k \in 1..Len(m_in) : m_in[k] \notin fs0)
    => /\ m_out \notin fs
       /\ \A w \in writes : w.path # m_out
       /\ mpc = "returned" => ret = "False"

C3_Witness ==
  /\ entry = "api" /\ cmd = "merge" /\ pc = "done"
  /\ m_in = <<"p1.pdf", "p2.pdf">> /\ fs0 = {"p1.pdf"}
  /\ InputHandle(1) \in handles
  /\ ret = "False"

\* C4: every subcommand exits with 0 exactly when its operation succeeded
\* and with 1 on every failure, the one of a supplied input path that does
\* not exist included.  (Command lines click refuses for another reason, a
\* wrong number of arguments or an unknown quality label, are left out.)
WellFormed ==
  /\ cmd # "merge" => ChoiceOK(quality)
  /\ cmd = "merge" => pdf_files # <<>>
  /\ cmd = "convert" => image_files # <<>>
  /\ cmd = "optimize" => Len(pdf_files) = 1

C4_ExitCodes ==
  (entry = "cli" /\ pc = "done" /\ WellFormed)
    => /\ exit_code \in {<<0>>, <<1>>}
       /\ exit_code = <<0>> <=> ret = "True"

\* C5: in a batch run with at least one input the steps are convert (only
\* with images), merge, optimize, each begun only once the one before it
\* returned True and none begun after a failure; merge is given the
\* converted-images PDF (if any) followed by the PDFs in argument order;
\* the output path is written by optimize_pdf alone.
BatchPlan ==
  (IF image_files # <<>>
   THEN <<[step |-> "image_to_pdf", ev |-> "start"],
          [step |-> "image_to_pdf", ev |-> "True"]>>
   ELSE <<>>)
  \o <<[step |-> "merge_pdfs", ev |-> "start"],
       [step |-> "merge_pdfs", ev |-> "True"],
       [step |-> "optimize_pdf", ev |-> "start"],
       [step |-> "optimize_pdf", ev |-> "True"]>>

C5_BatchOrder ==
  BatchCommand =>
    /\ Len(log) <= Len(BatchPlan)
    /\ \A k \in 1..Len(log) :
         \/ log[k] = BatchPlan[k]
         \/ /\ k = Len(log)
            /\ log[k] = [step |-> BatchPlan[k].step, ev |-> "False"]
            /\ BatchPlan[k].ev = "True"
    /\ log # <<>> => ~NoInputs
    /\ op = "merge_pdfs" =>
         m_in = (IF image_files # <<>> THEN <<TempImagesPdf>> ELSE <<>>) \o pdf_files
    /\ \A w \in writes : w.path = OutputPath => w.by = "optimize_pdf"

C5_Witness ==
  /\ BatchCommand /\ pc = "done" /\ exit_code = <<0>>
  /\ Len(image_files) = 2 /\ pdf_files = <<"p2.pdf", "p1.pdf">>
  /\ log = BatchPlan
  /\ [path |-> OutputPath, by |-> "optimize_pdf"] \in writes

\* C6: in optimize_pdf an image that fails to decode or re-encode does not
\* end the operation: every entry of every page is still gone through, an
\* image all of whose entries failed is saved as it was, the save is made,
\* and the call returns True when the save succeeds.
VisitsOf(id) == {k \in 1..Len(visited) : visited[k].obj = id}

C6_ImageFailureIsSkipped ==
  (op = "optimize_pdf" /\ mpc = "returned" /\ doc # <<>>)
    => /\ [k \in 1..Len(visited) |-> visited[k].ref] = Refs(input_doc)
       /\ \A id \in ObjIds :
            (VisitsOf(id) # {} /\ \A k \in VisitsOf(id) : visited[k].outcome = "warned")
              => doc[1].objs[id] = input_doc.objs[id]
       /\ saved_doc # <<>> => (ret = "True" /\ saved_doc = doc)
       /\ PdfHandle \notin handles

C6_Witness ==
  /\ op = "optimize_pdf" /\ mpc = "returned" /\ ret = "True"
  /\ \E j, k \in 1..Len(visited) :
       /\ j < k
       /\ visited[j].outcome = "warned"
       /\ visited[k].outcome = "reencoded"
       /\ visited[j].ref[1] < visited[k].ref[1]

\* C7: a converter holds one of the labels high, medium, low, the one it was
\* constructed with, and uses the preset (300, 95, true), (200, 85, true),
\* (150, 75, true) of that label; it never changes once constructed; no
\* method runs on a converter holding another label.
Preset(q) ==
  CASE q = "high"   -> [dpi |-> 300, quality |-> 95, optimize |-> TRUE]
    [] q = "medium" -> [dpi |-> 200, quality |-> 85, optimize |-> TRUE]
    [] q = "low"    -> [dpi |-> 150, quality |-> 75, optimize |-> TRUE]

Recompressible(o) ==
  /\ o.subtype = "Image"
  /\ o.len > 1024
  /\ o.body \notin {"unreadable", "garbage"}
  /\ JpegWritable(FlatMode(o.body))

C9_HandlesReleased ==
  mpc = "returned" => handles = {}

\* C10: the conversion to RGB puts every image of mode RGBA, LA or P on a
\* white background with its alpha as the mask, so a fully transparent
\* pixel comes out white; an image of another mode is handed on unchanged.
C10_TransparentBecomesWhite ==
  flat # <<>> =>
    IF img.mode \in {"RGBA", "LA", "P"}
    THEN /\ flat[1].mode = "RGB"
         /\ \A k \in DOMAIN img.px :
              img.px[k].a = 0 => flat[1].px[k].c = 255
    ELSE flat[1] = img

\* C11: within one run of optimize_pdf no image object has its stream
\* replaced by a re-encoding more than once, also when several pages, or
\* several names of one page, refer to the same object.
ReencodingsOf(id) ==
  Cardinality({k \in VisitsOf(id) : visited[k].outcome = "reencoded"})

====
